---- MODULE Spec2Model ----
(***************************************************************************)
(* A state-machine model of the expense-tracking backend (api/models.py,   *)
(* api/serializers.py, api/views.py, api/urls.py).  The state is the       *)
(* relational store (users, profiles, tokens, categories, transactions     *)
(* and the auto-increment counters) together with the last request and the *)
(* response it produced.  Every HTTP handler is one atomic action.         *)
(*                                                                         *)
(* Conventions.  An optional value is a sequence of length at most one:    *)
(* None == <<>> and Some(v) == <<v>>.  Text that the code inspects         *)
(* (emails, descriptions, search terms) is a sequence of characters;       *)
(* money is an integer number of cents (DecimalField, decimal_places=2).   *)
(***************************************************************************)
EXTENDS Integers, Sequences, FiniteSets, TLC

VARIABLES users, profiles, tokens, categories, transactions,
          nextUserId, nextCategoryId, nextTransactionId,
          request, response

db == <<users, profiles, tokens, categories, transactions,
        nextUserId, nextCategoryId, nextTransactionId>>

vars == <<users, profiles, tokens, categories, transactions,
          nextUserId, nextCategoryId, nextTransactionId,
          request, response>>

----------------------------------------------------------------------------
(* Bounds of the model. *)

MaxUsers == 2

MaxCategories == 2

MaxTransactions == 2

----------------------------------------------------------------------------
(* Optional values and small helpers. *)

None == <<>>

Some(v) == <<v>>

IsSome(o) == o # <<>>

Val(o) == o[1]

Abs(x) == IF x < 0 THEN -x ELSE x

\* f with the pair k |-> v added or replaced.
Put(f, k, v) == [x \in DOMAIN f \cup {k} |-> IF x = k THEN v ELSE f[x]]

\* f without the key k.
Drop(f, k) == [x \in DOMAIN f \ {k} |-> f[x]]

RECURSIVE SumOver(_, _)
\* The sum of g[x] over the finite set S (SQL Sum / Python sum).
SumOver(S, g) ==
  IF S = {} THEN 0
  ELSE LET x == CHOOSE y \in S : TRUE
       IN g[x] + SumOver(S \ {x}, g)

----------------------------------------------------------------------------
(* Text: characters, case folding, substring search, email normalisation. *)

LowerChar(c) ==
  CASE c = "A" -> "a"
    [] c = "B" -> "b"
    [] c = "X" -> "x"
    [] OTHER -> c

\* description__icontains: the needle occurs in the text, ignoring case.
IContains(text, needle) ==
  \E i \in 0..(Len(text) - Len(needle)) :
     \A j \in 1..Len(needle) : LowerChar(text[i + j]) = LowerChar(needle[j])

\* The positions of "@" in s.
AtPositions(s) == {i \in 1..Len(s) : s[i] = "@"}

LastAt(s) == CHOOSE i \in AtPositions(s) : \A j \in AtPositions(s) : j <= i

\* BaseUserManager.normalize_email, which create_user applies to the email
\* (not to the username): the part after the last "@" is lower-cased.
normalize_email(email) ==
  IF AtPositions(email) = {} THEN email
  ELSE [i \in 1..Len(email) |->
          IF i > LastAt(email) THEN LowerChar(email[i]) ELSE email[i]]

\* EmailField: a non-empty local part, one "@", a non-empty domain.
ValidEmail(e) ==
  /\ Cardinality(AtPositions(e)) = 1
  /\ LastAt(e) > 1
  /\ LastAt(e) < Len(e)

----------------------------------------------------------------------------
(* Binary floating point.  The handlers compute money in Decimal and hand  *)
(* float(...) of it to the response, so the values a client reads are IEEE *)
(* doubles.  A magnitude is a sequence of limbs in base 2^LimbBits, least  *)
(* significant first, without leading zero limbs; a double is [sign, m, e] *)
(* with value sign * m * 2^e, m of exactly DBL_MANT_DIG bits (zero: sign   *)
(* 0, m empty).  Exponent range and subnormals play no part for amounts of *)
(* money.                                                                  *)

DBL_MANT_DIG == 53

LimbBits == 24

Base == 2 ^ LimbBits

\* The limbs of a natural number below 2^31.
LimbsOf(n) ==
  IF n = 0 THEN <<>>
  ELSE IF n < Base THEN <<n>> ELSE <<n % Base, n \div Base>>

Limb(x, i) == IF i >= 1 /\ i <= Len(x) THEN x[i] ELSE 0

\* x without its leading (most significant) zero limbs.
TrimLimbs(x) ==
  LET nz == {i \in 1..Len(x) : x[i] # 0}
  IN IF nz = {} THEN <<>>
     ELSE SubSeq(x, 1, CHOOSE i \in nz : \A j \in nz : j <= i)

\* The number of bits of a limb v > 0.
LimbLen(v) == CHOOSE k \in 1..LimbBits : 2 ^ (k - 1) <= v /\ v < 2 ^ k

BitLen(x) ==
  IF x = <<>> THEN 0 ELSE LimbBits * (Len(x) - 1) + LimbLen(x[Len(x)])

\* x * 2^k.
ShiftLeft(x, k) ==
  LET w == k \div LimbBits
      s == k % LimbBits
      hi == 2 ^ (LimbBits - s)
      y == [i \in 1..(Len(x) + 1) |->
              (Limb(x, i) % hi) * (2 ^ s) + (Limb(x, i - 1) \div hi)]
  IN TrimLimbs([i \in 1..w |-> 0] \o y)

\* floor(x / 2^k).
ShiftRight(x, k) ==
  LET w == k \div LimbBits
      s == k % LimbBits
      y == IF w >= Len(x) THEN <<>> ELSE SubSeq(x, w + 1, Len(x))
  IN TrimLimbs([i \in 1..Len(y) |->
                  (y[i] \div (2 ^ s))
                  + (Limb(y, i + 1) % (2 ^ s)) * (2 ^ (LimbBits - s))])

\* Bit k of x (bit 0 is the least significant).
BitAt(x, k) == (Limb(x, (k \div LimbBits) + 1) \div (2 ^ (k % LimbBits))) % 2

\* x mod 2^k is not zero.
LowBitsSet(x, k) ==
  \/ \E i \in 1..(k \div LimbBits) : Limb(x, i) # 0
  \/ Limb(x, (k \div LimbBits) + 1) % (2 ^ (k % LimbBits)) # 0

RECURSIVE AddFrom(_, _, _, _)
AddFrom(a, b, i, c) ==
  IF i > Len(a) /\ i > Len(b) THEN (IF c = 1 THEN <<1>> ELSE <<>>)
  ELSE LET t == Limb(a, i) + Limb(b, i) + c
       IN <<t % Base>> \o AddFrom(a, b, i + 1, t \div Base)

AddLimbs(a, b) == AddFrom(a, b, 1, 0)

RECURSIVE SubFrom(_, _, _, _)
SubFrom(a, b, i, borrow) ==
  IF i > Len(a) THEN <<>>
  ELSE LET d == Limb(a, i) - Limb(b, i) - borrow
       IN <<d % Base>> \o SubFrom(a, b, i + 1, IF d < 0 THEN 1 ELSE 0)

\* a - b for magnitudes a >= b.
SubLimbs(a, b) == TrimLimbs(SubFrom(a, b, 1, 0))

\* a < b for magnitudes.
LessLimbs(a, b) ==
  \/ Len(a) < Len(b)
  \/ /\ Len(a) = Len(b)
     /\ \E i \in 1..Len(a) :
           /\ a[i] < b[i]
           /\ \A j \in (i + 1)..Len(a) : a[j] = b[j]

RECURSIVE DivFrom(_, _, _, _)
\* Long division of the limbs x[1..i] (above them the running remainder r)
\* by the small number d (d * Base must stay below 2^31).
DivFrom(x, i, r, d) ==
  IF i = 0 THEN [q |-> <<>>, r |-> r]
  ELSE LET t == r * Base + x[i]
           rest == DivFrom(x, i - 1, t % d, d)
       IN [q |-> rest.q \o <<t \div d>>, r |-> rest.r]

DivSmall(x, d) == DivFrom(x, Len(x), 0, d)

\* Round the magnitude (x + a fraction below one unit, present iff sticky)
\* * 2^e to DBL_MANT_DIG bits, to nearest, ties to even.
RoundLimbs(x, e, sticky) ==
  LET d == BitLen(x) - DBL_MANT_DIG
  IN IF d <= 0 THEN [m |-> ShiftLeft(x, -d), e |-> e + d]
     ELSE LET guard == BitAt(x, d - 1)
              low == sticky \/ LowBitsSet(x, d - 1)
              mant == ShiftRight(x, d)
              up == guard = 1 /\ (low \/ BitAt(mant, 0) = 1)
              m2 == IF up THEN AddLimbs(mant, <<1>>) ELSE mant
          IN IF BitLen(m2) > DBL_MANT_DIG
             THEN [m |-> ShiftRight(m2, 1), e |-> e + d + 1]
             ELSE [m |-> m2, e |-> e + d]

FloatZero == [sign |-> 0, m |-> <<>>, e |-> 0]

Signed(sign, r) == [sign |-> sign, m |-> r.m, e |-> r.e]

\* float(Decimal) of an amount of c cents: the double nearest c / 100.
ToFloat(c) ==
  IF c = 0 THEN FloatZero
  ELSE LET dv == DivSmall(<<0, 0, 0>> \o LimbsOf(Abs(c)), 100)
       IN Signed(IF c < 0 THEN -1 ELSE 1,
                 RoundLimbs(TrimLimbs(dv.q), -(3 * LimbBits), dv.r # 0))

\* x + y, correctly rounded (IEEE 754 binary64 addition).
FloatAdd(x, y) ==
  IF x.sign = 0 THEN y
  ELSE IF y.sign = 0 THEN x
  ELSE LET e0 == IF x.e <= y.e THEN x.e ELSE y.e
           X == ShiftLeft(x.m, x.e - e0)
           Y == ShiftLeft(y.m, y.e - e0)
       IN IF x.sign = y.sign
          THEN Signed(x.sign, RoundLimbs(AddLimbs(X, Y), e0, FALSE))
          ELSE IF X = Y THEN FloatZero
          ELSE IF LessLimbs(X, Y)
          THEN Signed(y.sign, RoundLimbs(SubLimbs(Y, X), e0, FALSE))
          ELSE Signed(x.sign, RoundLimbs(SubLimbs(X, Y), e0, FALSE))

\* x - y = x + (-y).
FloatSub(x, y) == FloatAdd(x, [y EXCEPT !.sign = -y.sign])

----------------------------------------------------------------------------
(* HTTP outcomes. *)

HTTP_200_OK == 200

HTTP_201_CREATED == 201

HTTP_204_NO_CONTENT == 204

HTTP_400_BAD_REQUEST == 400

HTTP_401_UNAUTHORIZED == 401

HTTP_404_NOT_FOUND == 404

\* An exception no handler catches (IntegrityError, TypeError): Django's
\* server error.  Nothing the request wrote is kept.
HTTP_500_INTERNAL_SERVER_ERROR == 500

Req(op, cred, pk, data) == [op |-> op, cred |-> cred, pk |-> pk, data |-> data]

Resp(status, body) == [status |-> status, body |-> body]

ErrorBody(msg) == [error |-> msg]

NotAuthenticated ==
  Resp(HTTP_401_UNAUTHORIZED,
       [detail |-> "Authentication credentials were not provided."])

NotFound == Resp(HTTP_404_NOT_FOUND, [detail |-> "Not found."])

ServerError(exc) == Resp(HTTP_500_INTERNAL_SERVER_ERROR, [exception |-> exc])

ValidationError == Resp(HTTP_400_BAD_REQUEST, [invalid |-> TRUE])

----------------------------------------------------------------------------
(* Authentication and permissions. *)

\* The key of the token row of user u.  Keys are unique per user, so the
\* model names a key by its owner.
TokenKey(u) == Some(u)

\* request.user: the owner of the presented token, None when the request
\* carries no credential or a key that is no token row.
Authenticate(cred) ==
  IF IsSome(cred) /\ Val(cred) \in tokens THEN Some(Val(cred)) ELSE None

\* permission_classes with every view open to anyone.
permission_classes_AllowAny(view) == "AllowAny"

\* The permission_classes of each view.
permission_classes(view) ==
  CASE view = "signup_view" -> "AllowAny"
    [] view = "login_view" -> "AllowAny"
    [] view = "forgot_password_view" -> "AllowAny"
    [] OTHER -> "IsAuthenticated"

\* IsAuthenticated refuses a request without an authenticated user.
Denied(view, cred) ==
  permission_classes(view) = "IsAuthenticated" /\ Authenticate(cred) = None

\* TokenAuthentication, for a key that is no token row.
InvalidToken == Resp(HTTP_401_UNAUTHORIZED, [detail |-> "Invalid token."])

Reject401(cred) ==
  /\ response' = IF cred = None THEN NotAuthenticated ELSE InvalidToken
  /\ UNCHANGED db

\* A handler reached without a user (no view of the code allows it) fails
\* on the first query filtered by request.user.
AnonymousCrash == response' = ServerError("TypeError") /\ UNCHANGED db

----------------------------------------------------------------------------
(* Users, profiles, tokens. *)

DefaultProfile == [currency |-> "USD", date_format |-> "YYYY-MM-DD"]

CURRENCY_CHOICES == {"USD", "EUR", "GBP"}

DATE_FORMAT_CHOICES == {"MM/DD/YYYY", "DD/MM/YYYY", "YYYY-MM-DD"}

\* `not value` for request.data.get(...): absent or empty.
Falsy(o) == o = None \/ Val(o) = <<>>

UserSerializer(u) ==
  [id |-> u, name |-> users[u].first_name, email |-> users[u].email]

\* The row User.objects.create_user builds: the email is normalised, the
\* username is kept as given.
create_user(username, email, password, first_name) ==
  [username |-> username, email |-> normalize_email(email),
   password |-> password, first_name |-> first_name]

\* POST /auth/signup
signup_view(data) ==
  /\ request' = Req("signup", None, None, data)
  /\ IF Falsy(data.name) \/ Falsy(data.email) \/ Falsy(data.password)
     THEN /\ response' = Resp(HTTP_400_BAD_REQUEST,
                 ErrorBody("Name, email and password are required."))
          /\ UNCHANGED db
     ELSE IF \E u \in DOMAIN users : users[u].email = Val(data.email)
     THEN /\ response' = Resp(HTTP_400_BAD_REQUEST,
                 ErrorBody("Email is already registered."))
          /\ UNCHANGED db
     ELSE IF \E u \in DOMAIN users : users[u].username = Val(data.email)
     THEN \* auth_user.username is unique: create_user raises IntegrityError
          /\ response' = ServerError("IntegrityError")
          /\ UNCHANGED db
     ELSE LET id == nextUserId
          IN /\ id <= MaxUsers
             /\ users' = Put(users, id,
                   create_user(Val(data.email), Val(data.email),
                               Val(data.password), Val(data.name)))
             /\ nextUserId' = id + 1
             /\ profiles' = Put(profiles, id, DefaultProfile)
             /\ tokens' = tokens \cup {id}
             /\ response' = Resp(HTTP_201_CREATED,
                   [token |-> TokenKey(id),
                    user |-> [id |-> id, name |-> Val(data.name),
                              email |-> normalize_email(Val(data.email))]])
             /\ UNCHANGED <<categories, transactions,
                            nextCategoryId, nextTransactionId>>

\* django.contrib.auth.authenticate: the user whose username is the given
\* one and whose password matches.
authenticate(username, password) ==
  LET hit == {u \in DOMAIN users :
                users[u].username = username /\ users[u].password = password}
  IN IF hit = {} THEN None ELSE Some(CHOOSE u \in hit : TRUE)

\* POST /auth/login
login_view(data) ==
  /\ request' = Req("login", None, None, data)
  /\ IF Falsy(data.email) \/ Falsy(data.password)
     THEN /\ response' = Resp(HTTP_400_BAD_REQUEST,
                 ErrorBody("Email and password are required."))
          /\ UNCHANGED db
     ELSE LET user == authenticate(Val(data.email), Val(data.password))
          IN IF user = None
             THEN /\ response' = Resp(HTTP_400_BAD_REQUEST,
                         ErrorBody("Invalid email or password."))
                  /\ UNCHANGED db
             ELSE /\ tokens' = tokens \cup {Val(user)}
                  /\ response' = Resp(HTTP_200_OK,
                        [token |-> TokenKey(Val(user)),
                         user |-> UserSerializer(Val(user))])
                  /\ UNCHANGED <<users, profiles, categories, transactions,
                                 nextUserId, nextCategoryId,
                                 nextTransactionId>>

\* POST /auth/forgot-password
forgot_password_view(data) ==
  /\ request' = Req("forgot_password", None, None, data)
  /\ response' = IF Falsy(data.email)
                 THEN Resp(HTTP_400_BAD_REQUEST, ErrorBody("Email is required."))
                 ELSE Resp(HTTP_200_OK, [message |-> "sent"])
  /\ UNCHANGED db

\* The Django admin registers UserProfile: an administrator may delete the
\* profile row of a user.
UserProfileAdmin_delete(user) ==
  /\ user \in DOMAIN profiles
  /\ profiles' = Drop(profiles, user)
  /\ UNCHANGED <<users, tokens, categories, transactions, nextUserId,
                 nextCategoryId, nextTransactionId, request, response>>

\* A get_or_create that always writes a fresh default row.
get_or_create_profile_Reset(user) == Put(profiles, user, DefaultProfile)

\* UserProfile.objects.get_or_create(user=user): the profile table after it.
get_or_create_profile(user) ==
  IF user \in DOMAIN profiles THEN profiles
  ELSE Put(profiles, user, DefaultProfile)

\* GET /me
MeView_get(cred) ==
  /\ request' = Req("me_get", cred, None, None)
  /\ IF Denied("MeView", cred) THEN Reject401(cred)
     ELSE IF Authenticate(cred) = None THEN AnonymousCrash
     ELSE LET user == Val(Authenticate(cred))
          IN /\ profiles' = get_or_create_profile(user)
             /\ response' = Resp(HTTP_200_OK,
                   [user |-> UserSerializer(user), profile |-> profiles'[user]])
             /\ UNCHANGED <<users, tokens, categories, transactions,
                            nextUserId, nextCategoryId, nextTransactionId>>

\* GET /settings/profile
ProfileView_get(cred) ==
  /\ request' = Req("profile_get", cred, None, None)
  /\ IF Denied("ProfileView", cred) THEN Reject401(cred)
     ELSE IF Authenticate(cred) = None THEN AnonymousCrash
     ELSE LET user == Val(Authenticate(cred))
          IN /\ profiles' = get_or_create_profile(user)
             /\ response' = Resp(HTTP_200_OK,
                   [user |-> UserSerializer(user), profile |-> profiles'[user]])
             /\ UNCHANGED <<users, tokens, categories, transactions,
                            nextUserId, nextCategoryId, nextTransactionId>>

\* ProfileUpdateSerializer.is_valid: every field is optional; an email must
\* be an email address, a currency or date format one of the choices.
ProfileUpdateValid(data) ==
  /\ IsSome(data.email) => ValidEmail(Val(data.email))
  /\ IsSome(data.currency) => Val(data.currency) \in CURRENCY_CHOICES
  /\ IsSome(data.date_format) => Val(data.date_format) \in DATE_FORMAT_CHOICES

\* ProfileUpdateSerializer.update, the user row: name and email when given;
\* the username follows the email.
ProfileUpdate_user(row, data) ==
  [row EXCEPT
     !.first_name = IF IsSome(data.name) THEN Val(data.name) ELSE @,
     !.email = IF IsSome(data.email) THEN Val(data.email) ELSE @,
     !.username = IF IsSome(data.email) THEN Val(data.email) ELSE @]

\* ProfileUpdateSerializer.update, the profile row.
ProfileUpdate_profile(row, data) ==
  [row EXCEPT
     !.currency = IF IsSome(data.currency) THEN Val(data.currency) ELSE @,
     !.date_format = IF IsSome(data.date_format)
                     THEN Val(data.date_format) ELSE @]

\* PUT /settings/profile
ProfileView_put(cred, data) ==
  /\ request' = Req("profile_put", cred, None, data)
  /\ IF Denied("ProfileView", cred) THEN Reject401(cred)
     ELSE IF Authenticate(cred) = None THEN AnonymousCrash
     ELSE LET user == Val(Authenticate(cred))
              created == get_or_create_profile(user)
              row == ProfileUpdate_user(users[user], data)
          IN IF ~ProfileUpdateValid(data)
             THEN /\ profiles' = created
                  /\ response' = ValidationError
                  /\ UNCHANGED <<users, tokens, categories, transactions,
                                 nextUserId, nextCategoryId,
                                 nextTransactionId>>
             ELSE IF \E o \in DOMAIN users \ {user} :
                        users[o].username = row.username
             THEN \* user.save() violates the unique username
                  /\ profiles' = created
                  /\ response' = ServerError("IntegrityError")
                  /\ UNCHANGED <<users, tokens, categories, transactions,
                                 nextUserId, nextCategoryId,
                                 nextTransactionId>>
             ELSE /\ users' = [users EXCEPT ![user] = row]
                  /\ profiles' = [created EXCEPT
                        ![user] = ProfileUpdate_profile(@, data)]
                  /\ response' = Resp(HTTP_200_OK,
                        [user |-> [id |-> user, name |-> row.first_name,
                                   email |-> row.email],
                         profile |-> profiles'[user]])
                  /\ UNCHANGED <<tokens, categories, transactions,
                                 nextUserId, nextCategoryId,
                                 nextTransactionId>>

\* The passwords validate_password refuses.
WeakPasswords == {<<"w">>}

validate_password(p) == p \notin WeakPasswords

\* POST /settings/change-password
ChangePasswordView_post(cred, data) ==
  /\ request' = Req("change_password", cred, None, data)
  /\ IF Denied("ChangePasswordView", cred) THEN Reject401(cred)
     ELSE IF Authenticate(cred) = None THEN AnonymousCrash
     ELSE LET user == Val(Authenticate(cred))
          IN IF Falsy(data.current_password) \/ Falsy(data.new_password)
             THEN response' = ValidationError /\ UNCHANGED db
             ELSE IF users[user].password # Val(data.current_password)
             THEN /\ response' = Resp(HTTP_400_BAD_REQUEST,
                         ErrorBody("Current password is incorrect."))
                  /\ UNCHANGED db
             ELSE IF ~validate_password(Val(data.new_password))
             THEN /\ response' = Resp(HTTP_400_BAD_REQUEST,
                         ErrorBody("password validation"))
                  /\ UNCHANGED db
             ELSE /\ users' = [users EXCEPT
                        ![user].password = Val(data.new_password)]
                  /\ response' = Resp(HTTP_200_OK, [message |-> "changed"])
                  /\ UNCHANGED <<profiles, tokens, categories, transactions,
                                 nextUserId, nextCategoryId,
                                 nextTransactionId>>

----------------------------------------------------------------------------
(* Ordering of query results. *)

\* The code point of a character (the alphabet of the model).
CharCode(c) ==
  CASE c = "@" -> 64
    [] c = "A" -> 65
    [] c = "B" -> 66
    [] c = "X" -> 88
    [] c = "a" -> 97
    [] c = "b" -> 98
    [] c = "x" -> 120
    [] OTHER -> 0

\* s sorts before t.
TextLess(s, t) ==
  \/ \E i \in 1..Len(s) :
        /\ i <= Len(t)
        /\ CharCode(s[i]) < CharCode(t[i])
        /\ \A j \in 1..(i - 1) : s[j] = t[j]
  \/ /\ Len(s) < Len(t)
     /\ \A j \in 1..Len(s) : s[j] = t[j]

RECURSIVE OrderBy(_, _)
\* The elements of S as a sequence, smallest first; Less is a function on
\* pairs that totally orders S.
OrderBy(S, Less) ==
  IF S = {} THEN <<>>
  ELSE LET m == CHOOSE x \in S : \A y \in S \ {x} : ~Less[<<y, x>>]
       IN <<m>> \o OrderBy(S \ {m}, Less)

----------------------------------------------------------------------------
(* Categories. *)

TYPE_CHOICES == {"income", "expense"}


\* Category.objects.filter(user=user), as ids.
CategoriesOf(cats, user) == {c \in DOMAIN cats : cats[c].user = user}

\* obj.transactions: the transactions that reference category c.
CategoryTransactions(txs, c) ==
  {t \in DOMAIN txs : txs[t].category = Some(c)}

\* get_count without the filter on the owner.
get_count_AnyOwner(txs, c, principal) ==
  IF principal = None THEN 0
  ELSE Cardinality(CategoryTransactions(txs, c))

\* CategorySerializer.get_count, for request.user = principal (None when
\* the request has no authenticated user).
get_count(txs, c, principal) ==
  IF principal = None THEN 0
  ELSE Cardinality({t \in CategoryTransactions(txs, c) :
                      txs[t].user = Val(principal)})

\* CategorySerializer.get_spent.
get_spent(txs, c, principal) ==
  IF principal = None THEN FloatZero
  ELSE LET mine == {t \in CategoryTransactions(txs, c) :
                      txs[t].user = Val(principal) /\ txs[t].type = "expense"}
       IN ToFloat(SumOver(mine, [t \in mine |-> Abs(txs[t].amount)]))

CategorySerializer(cats, txs, c, principal) ==
  [id |-> c, name |-> cats[c].name, type |-> cats[c].type,
   count |-> get_count(txs, c, principal),
   spent |-> get_spent(txs, c, principal)]

\* Field validation of a category payload; partial for PATCH.
CategoryFieldsValid(data, partial) ==
  /\ IF IsSome(data.name) THEN Val(data.name) # <<>> ELSE partial
  /\ IsSome(data.type) => Val(data.type) \in TYPE_CHOICES

\* A table without the unique_together constraint.
NameTaken_Never(cats, user, name, except) == FALSE

\* The unique_together (user, name) constraint of the table: some other
\* row of the user already has the name.
NameTaken(cats, user, name, except) ==
  \E c \in CategoriesOf(cats, user) \ except : cats[c].name = name

\* GET /categories
CategoryListCreateView_get(cred) ==
  /\ request' = Req("category_list", cred, None, None)
  /\ IF Denied("CategoryListCreateView", cred) THEN Reject401(cred)
     ELSE IF Authenticate(cred) = None THEN AnonymousCrash
     ELSE LET user == Val(Authenticate(cred))
              qs == CategoriesOf(categories, user)
              byName == [pr \in qs \X qs |->
                           TextLess(categories[pr[1]].name,
                                    categories[pr[2]].name)]
              rows == OrderBy(qs, byName)
          IN /\ response' = Resp(HTTP_200_OK,
                   [i \in 1..Len(rows) |->
                      CategorySerializer(categories, transactions, rows[i],
                                         Some(user))])
             /\ UNCHANGED db

\* POST /categories
CategoryListCreateView_post(cred, data) ==
  /\ request' = Req("category_create", cred, None, data)
  /\ IF Denied("CategoryListCreateView", cred) THEN Reject401(cred)
     ELSE IF Authenticate(cred) = None THEN AnonymousCrash
     ELSE LET user == Val(Authenticate(cred))
              id == nextCategoryId
          IN IF ~CategoryFieldsValid(data, FALSE)
             THEN response' = ValidationError /\ UNCHANGED db
             ELSE IF NameTaken(categories, user, Val(data.name), {})
             THEN \* the INSERT violates unique_together
                  response' = ServerError("IntegrityError") /\ UNCHANGED db
             ELSE /\ id <= MaxCategories
                  /\ categories' = Put(categories, id,
                        [user |-> user, name |-> Val(data.name),
                         type |-> IF IsSome(data.type) THEN Val(data.type)
                                  ELSE "expense"])
                  /\ nextCategoryId' = id + 1
                  /\ response' = Resp(HTTP_201_CREATED,
                        CategorySerializer(categories', transactions, id,
                                           Some(user)))
                  /\ UNCHANGED <<users, profiles, tokens, transactions,
                                 nextUserId, nextTransactionId>>

\* get_object over Category.objects.all(): the ownership filter is gone.
CategoryObject_AnyOwner(user, pk) ==
  IF pk \in DOMAIN categories THEN Some(pk) ELSE None

\* get_object of the category detail view: the row with this pk in
\* Category.objects.filter(user=request.user), else 404.
CategoryObject(user, pk) ==
  IF pk \in CategoriesOf(categories, user) THEN Some(pk) ELSE None

\* GET /categories/{pk}
CategoryDetailView_get(cred, pk) ==
  /\ request' = Req("category_retrieve", cred, Some(pk), None)
  /\ IF Denied("CategoryDetailView", cred) THEN Reject401(cred)
     ELSE IF Authenticate(cred) = None THEN AnonymousCrash
     ELSE LET user == Val(Authenticate(cred))
          IN /\ response' =
                  IF CategoryObject(user, pk) = None THEN NotFound
                  ELSE Resp(HTTP_200_OK,
                            CategorySerializer(categories, transactions, pk,
                                               Some(user)))
             /\ UNCHANGED db

\* PUT (partial = FALSE) and PATCH (partial = TRUE) /categories/{pk}
CategoryDetailView_update(cred, pk, data, partial) ==
  /\ request' = Req(IF partial THEN "category_patch" ELSE "category_put",
                    cred, Some(pk), data)
  /\ IF Denied("CategoryDetailView", cred) THEN Reject401(cred)
     ELSE IF Authenticate(cred) = None THEN AnonymousCrash
     ELSE LET user == Val(Authenticate(cred))
          IN IF CategoryObject(user, pk) = None
             THEN response' = NotFound /\ UNCHANGED db
             ELSE IF ~CategoryFieldsValid(data, partial)
             THEN response' = ValidationError /\ UNCHANGED db
             ELSE IF /\ IsSome(data.name)
                     /\ NameTaken(categories, user, Val(data.name), {pk})
             THEN \* the UPDATE violates unique_together
                  response' = ServerError("IntegrityError") /\ UNCHANGED db
             ELSE /\ categories' = [categories EXCEPT ![pk] =
                        [@ EXCEPT
                           !.name = IF IsSome(data.name) THEN Val(data.name)
                                    ELSE @,
                           !.type = IF IsSome(data.type) THEN Val(data.type)
                                    ELSE @]]
                  /\ response' = Resp(HTTP_200_OK,
                        CategorySerializer(categories', transactions, pk,
                                           Some(user)))
                  /\ UNCHANGED <<users, profiles, tokens, transactions,
                                 nextUserId, nextCategoryId,
                                 nextTransactionId>>

CategoryDetailView_put(cred, pk, data) ==
  CategoryDetailView_update(cred, pk, data, FALSE)

CategoryDetailView_patch(cred, pk, data) ==
  CategoryDetailView_update(cred, pk, data, TRUE)

\* on_delete=CASCADE: the transactions that reference category c go with it.
SET_NULL_Cascade(txs, c) ==
  [t \in {x \in DOMAIN txs : txs[x].category # Some(c)} |-> txs[t]]

\* Transaction.category is on_delete=SET_NULL: the transactions table after
\* category c is deleted.
SET_NULL(txs, c) ==
  [t \in DOMAIN txs |->
     IF txs[t].category = Some(c) THEN [txs[t] EXCEPT !.category = None]
     ELSE txs[t]]

\* DELETE /categories/{pk}
CategoryDetailView_delete(cred, pk) ==
  /\ request' = Req("category_delete", cred, Some(pk), None)
  /\ IF Denied("CategoryDetailView", cred) THEN Reject401(cred)
     ELSE IF Authenticate(cred) = None THEN AnonymousCrash
     ELSE LET user == Val(Authenticate(cred))
          IN IF CategoryObject(user, pk) = None
             THEN response' = NotFound /\ UNCHANGED db
             ELSE /\ categories' = Drop(categories, pk)
                  /\ transactions' = SET_NULL(transactions, pk)
                  /\ response' = Resp(HTTP_204_NO_CONTENT, None)
                  /\ UNCHANGED <<users, profiles, tokens, nextUserId,
                                 nextCategoryId, nextTransactionId>>

----------------------------------------------------------------------------
(* Transactions.  A date is its proleptic Gregorian ordinal                *)
(* (date.toordinal()).  In a payload every field is optional; the category *)
(* field is absent (None), an explicit null (Some(None)) or an id          *)
(* (Some(Some(id))).                                                       *)

\* Transaction.objects.all(): the owner filter is gone.
TransactionsOf_AllUsers(txs, user) == DOMAIN txs

\* Transaction.objects.filter(user=user), as ids.
TransactionsOf(txs, user) == {t \in DOMAIN txs : txs[t].user = user}

\* TransactionSerializer: category_name follows the category reference,
\* whoever owns the category.
TransactionSerializer(txs, cats, t) ==
  [id |-> t,
   description |-> txs[t].description,
   amount |-> txs[t].amount,
   category |-> txs[t].category,
   category_name |-> IF IsSome(txs[t].category)
                     THEN Some(cats[Val(txs[t].category)].name) ELSE None,
   type |-> txs[t].type,
   date |-> txs[t].date]

\* Field validation of a transaction payload; partial for PATCH.  The
\* category field is a PrimaryKeyRelatedField over Category.objects.all().
TransactionFieldsValid(data, partial) ==
  /\ IF IsSome(data.description) THEN Val(data.description) # <<>>
     ELSE partial
  /\ IsSome(data.amount) \/ partial
  /\ IF IsSome(data.type) THEN Val(data.type) \in TYPE_CHOICES ELSE partial
  /\ IsSome(data.date) \/ partial
  /\ (IsSome(data.category) /\ IsSome(Val(data.category)))
        => Val(Val(data.category)) \in DOMAIN categories

\* TransactionSerializer.validate compares attrs.get('amount') with 0 once
\* attrs.get('type') is a type: with the amount absent that comparison of
\* None with an int raises TypeError.
validate_raises(attrs) == IsSome(attrs.type) /\ attrs.amount = None

\* TransactionSerializer.validate: the attrs it returns.
validate(attrs) ==
  LET t_type == attrs.type
      amount == attrs.amount
      a1 == IF t_type = Some("income") /\ Val(amount) < 0
            THEN [attrs EXCEPT !.amount = Some(Abs(Val(amount)))]
            ELSE attrs
      a2 == IF t_type = Some("expense") /\ Val(amount) > 0
            THEN [a1 EXCEPT !.amount = Some(-Abs(Val(amount)))]
            ELSE a1
  IN a2

\* A create that takes the owner from the payload when it names one.
TransactionCreate_PayloadOwner(user, attrs) ==
  [user |-> IF "user" \in DOMAIN attrs /\ IsSome(attrs.user)
            THEN Val(attrs.user) ELSE user,
   category |-> IF IsSome(attrs.category) THEN Val(attrs.category) ELSE None,
   description |-> Val(attrs.description),
   amount |-> Val(attrs.amount),
   type |-> Val(attrs.type),
   date |-> Val(attrs.date)]

\* serializer.save(user=request.user) on create: the new row.
TransactionCreate(user, attrs) ==
  [user |-> user,
   category |-> IF IsSome(attrs.category) THEN Val(attrs.category) ELSE None,
   description |-> Val(attrs.description),
   amount |-> Val(attrs.amount),
   type |-> Val(attrs.type),
   date |-> Val(attrs.date)]

\* serializer.save() on update: the fields of attrs replace the row's.
TransactionUpdate(row, attrs) ==
  [row EXCEPT
     !.category = IF IsSome(attrs.category) THEN Val(attrs.category) ELSE @,
     !.description = IF IsSome(attrs.description)
                     THEN Val(attrs.description) ELSE @,
     !.amount = IF IsSome(attrs.amount) THEN Val(attrs.amount) ELSE @,
     !.type = IF IsSome(attrs.type) THEN Val(attrs.type) ELSE @,
     !.date = IF IsSome(attrs.date) THEN Val(attrs.date) ELSE @]

\* order_by('-date', '-id')
NewestFirst(txs, S) ==
  OrderBy(S, [pr \in S \X S |->
                \/ txs[pr[1]].date > txs[pr[2]].date
                \/ /\ txs[pr[1]].date = txs[pr[2]].date
                   /\ pr[1] > pr[2]])

\* TransactionListCreateView.get_queryset: the rows of the user that pass
\* the optional filters type, category and search.
TransactionQueryset(user, params) ==
  {t \in TransactionsOf(transactions, user) :
     /\ (IsSome(params.type) /\ Val(params.type) \in TYPE_CHOICES)
           => transactions[t].type = Val(params.type)
     /\ IsSome(params.category)
           => transactions[t].category = Some(Val(params.category))
     /\ (IsSome(params.search) /\ Val(params.search) # <<>>)
           => IContains(transactions[t].description, Val(params.search))}

\* GET /transactions
TransactionListCreateView_get(cred, params) ==
  /\ request' = Req("transaction_list", cred, None, params)
  /\ IF Denied("TransactionListCreateView", cred) THEN Reject401(cred)
     ELSE IF Authenticate(cred) = None THEN AnonymousCrash
     ELSE LET user == Val(Authenticate(cred))
              rows == NewestFirst(transactions,
                                  TransactionQueryset(user, params))
          IN /\ response' = Resp(HTTP_200_OK,
                   [i \in 1..Len(rows) |->
                      TransactionSerializer(transactions, categories,
                                            rows[i])])
             /\ UNCHANGED db

\* POST /transactions
TransactionListCreateView_post(cred, data) ==
  /\ request' = Req("transaction_create", cred, None, data)
  /\ IF Denied("TransactionListCreateView", cred) THEN Reject401(cred)
     ELSE IF Authenticate(cred) = None THEN AnonymousCrash
     ELSE LET user == Val(Authenticate(cred))
              id == nextTransactionId
          IN IF ~TransactionFieldsValid(data, FALSE)
             THEN response' = ValidationError /\ UNCHANGED db
             ELSE IF validate_raises(data)
             THEN response' = ServerError("TypeError") /\ UNCHANGED db
             ELSE /\ id <= MaxTransactions
                  /\ transactions' = Put(transactions, id,
                        TransactionCreate(user, validate(data)))
                  /\ nextTransactionId' = id + 1
                  /\ response' = Resp(HTTP_201_CREATED,
                        TransactionSerializer(transactions', categories, id))
                  /\ UNCHANGED <<users, profiles, tokens, categories,
                                 nextUserId, nextCategoryId>>

\* get_object of the transaction detail view: the row with this pk in
\* Transaction.objects.filter(user=request.user), else 404.
TransactionObject(user, pk) ==
  IF pk \in TransactionsOf(transactions, user) THEN Some(pk) ELSE None

\* GET /transactions/{pk}
TransactionDetailView_get(cred, pk) ==
  /\ request' = Req("transaction_retrieve", cred, Some(pk), None)
  /\ IF Denied("TransactionDetailView", cred) THEN Reject401(cred)
     ELSE IF Authenticate(cred) = None THEN AnonymousCrash
     ELSE LET user == Val(Authenticate(cred))
          IN /\ response' =
                  IF TransactionObject(user, pk) = None THEN NotFound
                  ELSE Resp(HTTP_200_OK,
                            TransactionSerializer(transactions, categories,
                                                  pk))
             /\ UNCHANGED db

\* PUT (partial = FALSE) and PATCH (partial = TRUE) /transactions/{pk}
TransactionDetailView_update(cred, pk, data, partial) ==
  /\ request' = Req(IF partial THEN "transaction_patch"
                    ELSE "transaction_put", cred, Some(pk), data)
  /\ IF Denied("TransactionDetailView", cred) THEN Reject401(cred)
     ELSE IF Authenticate(cred) = None THEN AnonymousCrash
     ELSE LET user == Val(Authenticate(cred))
          IN IF TransactionObject(user, pk) = None
             THEN response' = NotFound /\ UNCHANGED db
             ELSE IF ~TransactionFieldsValid(data, partial)
             THEN response' = ValidationError /\ UNCHANGED db
             ELSE IF validate_raises(data)
             THEN response' = ServerError("TypeError") /\ UNCHANGED db
             ELSE /\ transactions' = [transactions EXCEPT ![pk] =
                        TransactionUpdate(@, validate(data))]
                  /\ response' = Resp(HTTP_200_OK,
                        TransactionSerializer(transactions', categories, pk))
                  /\ UNCHANGED <<users, profiles, tokens, categories,
                                 nextUserId, nextCategoryId,
                                 nextTransactionId>>

TransactionDetailView_put(cred, pk, data) ==
  TransactionDetailView_update(cred, pk, data, FALSE)

TransactionDetailView_patch(cred, pk, data) ==
  TransactionDetailView_update(cred, pk, data, TRUE)

\* DELETE /transactions/{pk}
TransactionDetailView_delete(cred, pk) ==
  /\ request' = Req("transaction_delete", cred, Some(pk), None)
  /\ IF Denied("TransactionDetailView", cred) THEN Reject401(cred)
     ELSE IF Authenticate(cred) = None THEN AnonymousCrash
     ELSE LET user == Val(Authenticate(cred))
          IN IF TransactionObject(user, pk) = None
             THEN response' = NotFound /\ UNCHANGED db
             ELSE /\ transactions' = Drop(transactions, pk)
                  /\ response' = Resp(HTTP_204_NO_CONTENT, None)
                  /\ UNCHANGED <<users, profiles, tokens, categories,
                                 nextUserId, nextCategoryId,
                                 nextTransactionId>>

----------------------------------------------------------------------------
(* Dates. *)

\* The month (1..12) of the date with proleptic Gregorian ordinal n
\* (date.fromordinal(n).month), by the civil-from-days computation.
MonthOf(n) ==
  LET z == n + 305
      era == z \div 146097
      doe == z - era * 146097
      yoe == (doe - doe \div 1460 + doe \div 36524 - doe \div 146096) \div 365
      doy == doe - (365 * yoe + yoe \div 4 - yoe \div 100)
      mp == (5 * doy + 2) \div 153
  IN IF mp < 10 THEN mp + 3 ELSE mp - 9

\* t.date.strftime('%b')
MonthLabel(n) ==
  LET MonthNames == <<"Jan", "Feb", "Mar", "Apr", "May", "Jun",
                      "Jul", "Aug", "Sep", "Oct", "Nov", "Dec">>
  IN MonthNames[MonthOf(n)]

----------------------------------------------------------------------------
(* Dashboard summary. *)

\* qs.filter(type=...).aggregate(total=Sum('amount'))['total'] or 0
SumAmount(txs, S) == SumOver(S, [t \in S |-> txs[t].amount])

\* ... aggregate(total=Sum(Abs(F('amount'))))['total'] or 0
SumAbsAmount(txs, S) == SumOver(S, [t \in S |-> Abs(txs[t].amount)])

OfType(txs, S, type) == {t \in S : txs[t].type = type}

\* income_total of the dashboard, in cents.
income_total(txs, qs) == SumAmount(txs, OfType(txs, qs, "income"))

\* expense_total_abs of the dashboard, in cents: the absolute value of the
\* signed sum.
expense_total_abs(txs, qs) == Abs(SumAmount(txs, OfType(txs, qs, "expense")))

\* balance with the signed expense total subtracted (abs forgotten).
balance_SignedExpenses(txs, qs) ==
  income_total(txs, qs) - SumAmount(txs, OfType(txs, qs, "expense"))

\* balance of the dashboard, in cents.
balance(txs, qs) == income_total(txs, qs) - expense_total_abs(txs, qs)

\* The summary object of the response.
DashboardSummary(txs, qs) ==
  [total_income |-> ToFloat(income_total(txs, qs)),
   total_expenses |-> ToFloat(expense_total_abs(txs, qs)),
   balance |-> ToFloat(balance(txs, qs))]

\* chart_data with the expenses of a month added up signed.
chart_data_SignedExpenses(txs, qs) ==
  {[month |-> label,
    income |-> ToFloat(SumAmount(txs,
                 {t \in OfType(txs, qs, "income") :
                    MonthLabel(txs[t].date) = label})),
    expenses |-> ToFloat(SumAmount(txs,
                   {t \in qs : txs[t].type # "income"
                               /\ MonthLabel(txs[t].date) = label}))] :
   label \in {MonthLabel(txs[t].date) : t \in qs}}

\* chart_data: one entry per month label among the rows of qs.
chart_data(txs, qs) ==
  {[month |-> label,
    income |-> ToFloat(SumAmount(txs,
                 {t \in OfType(txs, qs, "income") :
                    MonthLabel(txs[t].date) = label})),
    expenses |-> ToFloat(SumAbsAmount(txs,
                   {t \in qs : txs[t].type # "income"
                               /\ MonthLabel(txs[t].date) = label}))] :
   label \in {MonthLabel(txs[t].date) : t \in qs}}

\* recent_qs without the slice.
recent_qs_NoLimit(txs, qs) == NewestFirst(txs, qs)

\* qs.order_by('-date', '-id')[:5]
recent_qs(txs, qs) ==
  LET rows == NewestFirst(txs, qs)
  IN SubSeq(rows, 1, IF Len(rows) < 5 THEN Len(rows) ELSE 5)

\* GET /dashboard/summary
DashboardSummaryView_get(cred) ==
  /\ request' = Req("dashboard_summary", cred, None, None)
  /\ IF Denied("DashboardSummaryView", cred) THEN Reject401(cred)
     ELSE IF Authenticate(cred) = None THEN AnonymousCrash
     ELSE LET user == Val(Authenticate(cred))
              qs == TransactionsOf(transactions, user)
              recent == recent_qs(transactions, qs)
          IN /\ response' = Resp(HTTP_200_OK,
                   [summary |-> DashboardSummary(transactions, qs),
                    chart |-> chart_data(transactions, qs),
                    recent_transactions |->
                       [i \in 1..Len(recent) |->
                          TransactionSerializer(transactions, categories,
                                                recent[i])]])
             /\ UNCHANGED db

----------------------------------------------------------------------------
(* Analytics overview. *)

\* x < y for doubles.
FloatLess(x, y) == FloatSub(x, y).sign < 0

RECURSIVE FloatSum(_)
\* sum(...) over a sequence of doubles, left to right from 0.
FloatSum(seq) ==
  IF seq = <<>> THEN FloatZero
  ELSE FloatAdd(FloatSum(SubSeq(seq, 1, Len(seq) - 1)), seq[Len(seq)])

\* The expense rows of qs that have a category.
CategorisedExpenses(txs, qs) ==
  {t \in OfType(txs, qs, "expense") : IsSome(txs[t].category)}

\* .values('category__name').annotate(total=Sum(Abs(F('amount')))): the
\* groups, keyed by the name of the referenced category, with totals in
\* cents.
ExpenseGroups(txs, cats, qs) ==
  LET rows == CategorisedExpenses(txs, qs)
      nameOf == [t \in rows |-> cats[Val(txs[t].category)].name]
  IN {[name |-> n,
       total |-> SumAbsAmount(txs, {t \in rows : nameOf[t] = n})] :
      n \in {nameOf[t] : t \in rows}}

\* seq lists the groups G once each by descending total: an outcome of
\* order_by('-total'), which leaves the order of equal totals open.
IsOrderedByTotal(seq, G) ==
  /\ Len(seq) = Cardinality(G)
  /\ {seq[i] : i \in 1..Len(seq)} = G
  /\ \A i \in 1..(Len(seq) - 1) : seq[i].total >= seq[i + 1].total

RECURSIVE Orderings(_)
\* Every sequence that lists the elements of G once each.
Orderings(G) ==
  IF G = {} THEN {<<>>}
  ELSE UNION {{<<g>> \o rest : rest \in Orderings(G \ {g})} : g \in G}

\* category_data for one outcome of the ordering.
category_data(expenses) ==
  [i \in 1..Len(expenses) |->
     [name |-> expenses[i].name, value |-> ToFloat(expenses[i].total)]]

\* top_category
top_category(data) == IF data # <<>> THEN Some(data[1].name) ELSE None

\* total_expenses_value = sum(c['value'] for c in category_data)
total_expenses_value(data) ==
  FloatSum([i \in 1..Len(data) |-> data[i].value])

\* top_category_percent without the total > 0 guard.
top_category_percent_NoZeroGuard(data) ==
  IF data # <<>>
  THEN Some([num |-> data[1].value, den |-> total_expenses_value(data)])
  ELSE None

\* top_category_percent: None, or the operands of the quotient
\* category_data[0]['value'] / total_expenses_value, which the code
\* multiplies by 100.0.
top_category_percent(data) ==
  IF FloatLess(FloatZero, total_expenses_value(data)) /\ data # <<>>
  THEN Some([num |-> data[1].value, den |-> total_expenses_value(data)])
  ELSE None

\* trend_data: the net signed amount per month label.
trend_data(txs, qs) ==
  {[month |-> label,
    amount |-> ToFloat(SumAmount(txs,
                 {t \in qs : MonthLabel(txs[t].date) = label}))] :
   label \in {MonthLabel(txs[t].date) : t \in qs}}

\* last_30_expenses with the first day of the window left out.
last_30_expenses_Exclusive(txs, qs, today) ==
  SumAbsAmount(txs, {t \in OfType(txs, qs, "expense") :
                       /\ txs[t].date > today - 30
                       /\ txs[t].date <= today})

\* last_30_expenses, in cents: the expenses dated in [today - 30, today].
last_30_expenses(txs, qs, today) ==
  SumAbsAmount(txs, {t \in OfType(txs, qs, "expense") :
                       /\ txs[t].date >= today - 30
                       /\ txs[t].date <= today})

\* savings_rate guarded by income_total != 0 instead of > 0.
savings_rate_NonZeroGuard(txs, qs) ==
  LET income == SumAmount(txs, OfType(txs, qs, "income"))
      expense == SumAbsAmount(txs, OfType(txs, qs, "expense"))
  IN IF income # 0 THEN Some([num |-> income - expense, den |-> income])
     ELSE None

\* savings_rate: None unless income_total > 0; else the operands of
\* (income_total - expense_total) / income_total, in cents, which the code
\* multiplies by 100.
savings_rate(txs, qs) ==
  LET income == SumAmount(txs, OfType(txs, qs, "income"))
      expense == SumAbsAmount(txs, OfType(txs, qs, "expense"))
  IN IF income > 0 THEN Some([num |-> income - expense, den |-> income])
     ELSE None

\* GET /analytics/overview, on the day `today`.
AnalyticsOverviewView_get(cred, today) ==
  /\ request' = Req("analytics_overview", cred, None, [today |-> today])
  /\ IF Denied("AnalyticsOverviewView", cred) THEN Reject401(cred)
     ELSE IF Authenticate(cred) = None THEN AnonymousCrash
     ELSE LET user == Val(Authenticate(cred))
              qs == TransactionsOf(transactions, user)
              G == ExpenseGroups(transactions, categories, qs)
          IN /\ \E expenses \in Orderings(G) :
                  /\ IsOrderedByTotal(expenses, G)
                  /\ LET data == category_data(expenses)
                     IN response' = Resp(HTTP_200_OK,
                          [category_data |-> data,
                           trend_data |-> trend_data(transactions, qs),
                           average_daily_spending |->
                              [num |-> last_30_expenses(transactions, qs,
                                                        today),
                               den |-> 30],
                           top_category |-> top_category(data),
                           top_category_percent |->
                              top_category_percent(data),
                           savings_rate |-> savings_rate(transactions, qs)])
             /\ UNCHANGED db

----------------------------------------------------------------------------
(* The state machine.  The server handles one request at a time (each      *)
(* handler is one atomic step that records the request and its response);  *)
(* Respond hands the response to the client and leaves the server idle.    *)

IdleRequest == Req("idle", None, None, None)

Init ==
  /\ users = <<>>
  /\ profiles = <<>>
  /\ tokens = {}
  /\ categories = <<>>
  /\ transactions = <<>>
  /\ nextUserId = 1
  /\ nextCategoryId = 1
  /\ nextTransactionId = 1
  /\ request = IdleRequest
  /\ response = Resp(0, None)

Idle == request = IdleRequest

Respond ==
  /\ ~Idle
  /\ request' = IdleRequest
  /\ response' = Resp(0, None)
  /\ UNCHANGED db

\* A payload with every field of the set F absent.
Absent(F) == [f \in F |-> None]

\* Text values of the model.
TextA == <<"a">>

TextB == <<"b">>

EmailA == <<"a", "@", "x">>

EmailB == <<"b", "@", "x">>

\* EmailA with its domain in upper case.
EmailAUpper == <<"a", "@", "X">>

Password1 == <<"p">>

Password2 == <<"q">>

SignupData(emails) ==
  {[name |-> Some(TextA), email |-> Some(e), password |-> Some(Password1)] :
     e \in emails}

\* The credentials a client may present: none, or a token key.
TokenKeys == {TokenKey(u) : u \in 1..MaxUsers}

CategoryIds == 1..MaxCategories

TransactionIds == 1..MaxTransactions

TransactionFields == {"description", "amount", "category", "type", "date"}

\* Category payloads with the given names.
CategoryData(names) == {[name |-> Some(n), type |-> None] : n \in names}

\* Complete transaction payloads; a category is absent or one of the ids.
TransactionData(descriptions, amounts, types, ids) ==
  {[description |-> Some(d), amount |-> Some(a), type |-> Some(ty),
    date |-> Some(738900), category |-> c] :
     d \in descriptions, a \in amounts, ty \in types,
     c \in {None} \cup {Some(Some(k)) : k \in ids}}

\* Query parameters of the transaction list: none, or one filter.
ListParams ==
  {Absent({"type", "category", "search"}),
   [Absent({"type", "category", "search"}) EXCEPT !.type = Some("income")],
   [Absent({"type", "category", "search"}) EXCEPT !.category = Some(1)],
   [Absent({"type", "category", "search"}) EXCEPT !.search = Some(<<"B">>)]}

----------------------------------------------------------------------------
(* Isolation between principals: two users, categories, transactions       *)
(* without a category or with the first one (whoever owns it), every list  *)
(* and retrieve operation.                                                 *)

NextIso ==
  \/ Respond
  \/ Idle /\ \E data \in SignupData({EmailA, EmailB}) : signup_view(data)
  \/ Idle /\ \E cred \in TokenKeys : CategoryListCreateView_get(cred)
  \/ Idle /\ \E cred \in TokenKeys, data \in CategoryData({TextA, TextB}) :
        CategoryListCreateView_post(cred, data)
  \/ Idle /\ \E cred \in TokenKeys, pk \in CategoryIds :
        CategoryDetailView_get(cred, pk)
  \/ Idle /\ \E cred \in TokenKeys, params \in ListParams :
        TransactionListCreateView_get(cred, params)
  \/ Idle /\ \E cred \in TokenKeys,
                data \in TransactionData({TextA}, {10}, {"expense"},
                                         DOMAIN categories \cap {1})
                         \cup TransactionData({TextB}, {10}, {"income"},
                                              DOMAIN categories \cap {1}) :
        TransactionListCreateView_post(cred, data)
  \/ Idle /\ \E cred \in TokenKeys, pk \in TransactionIds :
        TransactionDetailView_get(cred, pk)

SpecIso == Init /\ [][NextIso]_vars

\* The principal of the recorded request.
Principal == Authenticate(request.cred)

\* The rows of a response body that is a list.
BodyRows == {response.body[i] : i \in 1..Len(response.body)}

TransactionRowOps ==
  {"transaction_create", "transaction_retrieve", "transaction_put",
   "transaction_patch"}

\* The serialized transactions of the recorded response.
ResponseTransactions ==
  IF response.status \notin {HTTP_200_OK, HTTP_201_CREATED} THEN {}
  ELSE IF request.op \in TransactionRowOps THEN {response.body}
  ELSE IF request.op = "transaction_list" THEN BodyRows
  ELSE IF request.op = "dashboard_summary"
  THEN {response.body.recent_transactions[i] :
          i \in 1..Len(response.body.recent_transactions)}
  ELSE {}

\* C2: no response to principal P carries an attribute of a row owned by
\* another principal: every category whose name a serialized transaction
\* shows in category_name is a category of P.
C2_NoForeignAttribute ==
  \A row \in ResponseTransactions :
     IsSome(row.category_name)
        => categories[Val(row.category)].user = Val(Principal)

\* C3: the category list, category detail, transaction list (under any
\* filters) and transaction detail operations of principal P return only
\* rows that P owns, each as stored, and the unfiltered lists return all of
\* P's rows.
C3_OwnRowsOnly ==
  response.status = HTTP_200_OK =>
     /\ request.op = "category_list" =>
           /\ {r.id : r \in BodyRows} = CategoriesOf(categories, Val(Principal))
           /\ \A r \in BodyRows : r.name = categories[r.id].name
     /\ request.op = "category_retrieve" =>
           /\ response.body.id = Val(request.pk)
           /\ response.body.id \in DOMAIN categories
           /\ categories[response.body.id].user = Val(Principal)
     /\ request.op = "transaction_list" =>
           /\ \A r \in BodyRows :
                 /\ r.id \in DOMAIN transactions
                 /\ transactions[r.id].user = Val(Principal)
                 /\ r.description = transactions[r.id].description
           /\ request.data = Absent({"type", "category", "search"}) =>
                 {r.id : r \in BodyRows}
                    = {t \in DOMAIN transactions :
                         transactions[t].user = Val(Principal)}
     /\ request.op = "transaction_retrieve" =>
           /\ response.body.id = Val(request.pk)
           /\ response.body.id \in DOMAIN transactions
           /\ transactions[response.body.id].user = Val(Principal)

\* C3 witness: a filtered transaction list answered with a row while the
\* other user owns a transaction too.
C3_Witness ==
  /\ request.op = "transaction_list"
  /\ IsSome(request.data.search)
  /\ response.status = HTTP_200_OK
  /\ Len(response.body) >= 1
  /\ \E t \in DOMAIN transactions : transactions[t].user # Val(Principal)

----------------------------------------------------------------------------
(* Detail operations: two users, categories and transactions, GET, PUT,    *)
(* PATCH and DELETE of every id by every user.                             *)

NextDetail ==
  \/ Respond
  \/ Idle /\ \E data \in SignupData({EmailA, EmailB}) : signup_view(data)
  \/ Idle /\ \E cred \in TokenKeys, data \in CategoryData({TextA}) :
        CategoryListCreateView_post(cred, data)
  \/ Idle /\ \E cred \in TokenKeys, pk \in CategoryIds :
        CategoryDetailView_get(cred, pk)
  \/ Idle /\ \E cred \in TokenKeys, pk \in CategoryIds,
                data \in CategoryData({TextB}) :
        CategoryDetailView_put(cred, pk, data)
  \/ Idle /\ \E cred \in TokenKeys, pk \in CategoryIds,
                data \in CategoryData({TextB}) :
        CategoryDetailView_patch(cred, pk, data)
  \/ Idle /\ \E cred \in TokenKeys, pk \in CategoryIds :
        CategoryDetailView_delete(cred, pk)
  \/ Idle /\ \E cred \in TokenKeys,
                data \in TransactionData({TextA}, {10}, {"expense"}, {}) :
        TransactionListCreateView_post(cred, data)
  \/ Idle /\ \E cred \in TokenKeys, pk \in TransactionIds :
        TransactionDetailView_get(cred, pk)
  \/ Idle /\ \E cred \in TokenKeys, pk \in TransactionIds,
                data \in TransactionData({TextB}, {10}, {"expense"}, {}) :
        TransactionDetailView_put(cred, pk, data)
  \/ Idle /\ \E cred \in TokenKeys, pk \in TransactionIds :
        TransactionDetailView_patch(cred, pk,
           [Absent(TransactionFields) EXCEPT !.description = Some(TextB)])
  \/ Idle /\ \E cred \in TokenKeys, pk \in TransactionIds :
        TransactionDetailView_delete(cred, pk)

SpecDetail == Init /\ [][NextDetail]_vars

DetailOps ==
  {"category_retrieve", "category_put", "category_patch", "category_delete",
   "transaction_retrieve", "transaction_put", "transaction_patch",
   "transaction_delete"}

CategoryDetailOps ==
  {"category_retrieve", "category_put", "category_patch", "category_delete"}

\* The table a detail operation addresses.
TargetTable(op) == IF op \in CategoryDetailOps THEN categories ELSE transactions

\* The step is a detail request of an authenticated principal for an id
\* that the principal does not own; `exists` says whether the id is a row.
ForeignDetailStep(exists) ==
  /\ request'.op \in DetailOps
  /\ Authenticate(request'.cred) # None
  /\ LET table == TargetTable(request'.op)
         pk == Val(request'.pk)
     IN IF exists
        THEN pk \in DOMAIN table
             /\ table[pk].user # Val(Authenticate(request'.cred))
        ELSE pk \notin DOMAIN table

\* C4: a detail GET, PUT, PATCH or DELETE of an authenticated principal on
\* an id owned by another principal ends in 404 Not Found, the very response
\* given for an id that does not exist (never 403), and changes no row.
C4_ForeignIsNotFound ==
  [][(ForeignDetailStep(TRUE) \/ ForeignDetailStep(FALSE))
       => /\ response'.status = HTTP_404_NOT_FOUND
          /\ response'.body = NotFound.body
          /\ UNCHANGED db]_vars

\* C4 witness: a PATCH of a transaction that exists and belongs to the
\* other user was answered 404.
C4_Witness ==
  /\ request.op = "transaction_patch"
  /\ Principal # None
  /\ Val(request.pk) \in DOMAIN transactions
  /\ transactions[Val(request.pk)].user # Val(Principal)
  /\ response.status = HTTP_404_NOT_FOUND

----------------------------------------------------------------------------
(* Categories: two users, create, list, rename by PUT and PATCH, delete.   *)

NextCat ==
  \/ Respond
  \/ Idle /\ \E data \in SignupData({EmailA, EmailB}) : signup_view(data)
  \/ Idle /\ \E cred \in TokenKeys : CategoryListCreateView_get(cred)
  \/ Idle /\ \E cred \in TokenKeys, data \in CategoryData({TextA, TextB}) :
        CategoryListCreateView_post(cred, data)
  \/ Idle /\ \E cred \in TokenKeys, pk \in CategoryIds,
                data \in CategoryData({TextA, TextB}) :
        CategoryDetailView_put(cred, pk, data)
  \/ Idle /\ \E cred \in TokenKeys, pk \in CategoryIds,
                data \in CategoryData({TextA, TextB}) :
        CategoryDetailView_patch(cred, pk, data)
  \/ Idle /\ \E cred \in TokenKeys, pk \in CategoryIds :
        CategoryDetailView_delete(cred, pk)

SpecCat == Init /\ [][NextCat]_vars

\* No two categories of one user share a name.
UniqueCategoryNames ==
  \A c1, c2 \in DOMAIN categories :
     (categories[c1].user = categories[c2].user
      /\ categories[c1].name = categories[c2].name) => c1 = c2

\* The step is a valid create, PUT or PATCH by the owner that would give
\* the owner a second category of the same name.
DuplicateNameStep ==
  /\ request'.op \in {"category_create", "category_put", "category_patch"}
  /\ Authenticate(request'.cred) # None
  /\ IsSome(request'.data.name)
  /\ LET user == Val(Authenticate(request'.cred))
         mine == CategoriesOf(categories, user)
         target == IF request'.op = "category_create" THEN {}
                   ELSE {Val(request'.pk)}
     IN /\ target \subseteq mine
        /\ \E c \in mine \ target : categories[c].name = Val(request'.data.name)

\* C7: no two categories of a user ever share a name; a create or rename
\* that would produce a duplicate (user, name) fails with the integrity
\* (conflict) error and leaves the categories unchanged.
C7_UniqueCategoryName ==
  /\ []UniqueCategoryNames
  /\ [][DuplicateNameStep
          => /\ response'.status = HTTP_500_INTERNAL_SERVER_ERROR
             /\ response'.body.exception = "IntegrityError"
             /\ categories' = categories]_vars

\* C7 witness: a create of a name the principal already holds was refused,
\* while the other user holds a category of that same name.
C7_Witness ==
  /\ request.op = "category_create"
  /\ response.status = HTTP_500_INTERNAL_SERVER_ERROR
  /\ \E c1, c2 \in DOMAIN categories :
        /\ categories[c1].user = Val(Principal)
        /\ categories[c2].user # Val(Principal)
        /\ categories[c1].name = Val(request.data.name)
        /\ categories[c2].name = Val(request.data.name)

----------------------------------------------------------------------------
(* Deleting a category: every transaction is created with a category, so a *)
(* transaction without one has lost it to a delete.                        *)

NextDel ==
  \/ Respond
  \/ Idle /\ \E data \in SignupData({EmailA, EmailB}) : signup_view(data)
  \/ Idle /\ \E cred \in TokenKeys, data \in CategoryData({TextA, TextB}) :
        CategoryListCreateView_post(cred, data)
  \/ Idle /\ \E cred \in TokenKeys,
                data \in TransactionData({TextA}, {10}, {"expense"},
                                         CategoryIds) :
        IsSome(data.category)
        /\ TransactionListCreateView_post(cred, data)
  \/ Idle /\ \E cred \in TokenKeys, pk \in CategoryIds :
        CategoryDetailView_delete(cred, pk)
  \/ Idle /\ \E cred \in TokenKeys, pk \in TransactionIds :
        TransactionDetailView_delete(cred, pk)

SpecDel == Init /\ [][NextDel]_vars

\* C5: deleting a category removes no transaction; every transaction keeps
\* its owner, description, amount, type and date; the transactions that
\* referenced the deleted category lose their reference and every other
\* transaction keeps its own.
C5_DeleteCategoryKeepsTransactions ==
  [][(request'.op = "category_delete"
      /\ response'.status = HTTP_204_NO_CONTENT)
       => LET c == Val(request'.pk)
          IN /\ c \in DOMAIN categories
             /\ c \notin DOMAIN categories'
             /\ DOMAIN transactions' = DOMAIN transactions
             /\ \A t \in DOMAIN transactions :
                   /\ transactions'[t].user = transactions[t].user
                   /\ transactions'[t].description
                         = transactions[t].description
                   /\ transactions'[t].amount = transactions[t].amount
                   /\ transactions'[t].type = transactions[t].type
                   /\ transactions'[t].date = transactions[t].date
                   /\ transactions'[t].category =
                         IF transactions[t].category = Some(c) THEN None
                         ELSE transactions[t].category]_vars

\* C5 witness: a category was just deleted; one transaction has lost its
\* category to it and another still references the category that remains.
C5_Witness ==
  /\ request.op = "category_delete"
  /\ response.status = HTTP_204_NO_CONTENT
  /\ \E t1, t2 \in DOMAIN transactions :
        /\ transactions[t1].category = None
        /\ IsSome(transactions[t2].category)

----------------------------------------------------------------------------
(* The transaction write path: one user, POST, PUT and PATCH with every    *)
(* combination of amount and type.                                         *)

WriteTransactionPatch ==
  {[Absent(TransactionFields) EXCEPT !.amount = a, !.type = ty] :
     a \in {None} \cup {Some(x) : x \in {-10, 0, 10}},
     ty \in {None} \cup {Some(x) : x \in TYPE_CHOICES}}

NextWrite ==
  \/ Respond
  \/ Idle /\ \E data \in SignupData({EmailA}) : signup_view(data)
  \/ Idle /\ \E cred \in TokenKeys,
                data \in TransactionData({TextA}, {-10, 0, 10},
                                         TYPE_CHOICES, {}) :
        TransactionListCreateView_post(cred, data)
  \/ Idle /\ \E cred \in TokenKeys, pk \in TransactionIds,
                data \in TransactionData({TextA}, {-10, 0, 10},
                                         TYPE_CHOICES, {}) :
        TransactionDetailView_put(cred, pk, data)
  \/ Idle /\ \E cred \in TokenKeys, pk \in TransactionIds,
                data \in WriteTransactionPatch :
        TransactionDetailView_patch(cred, pk, data)
  \/ Idle /\ \E cred \in TokenKeys : DashboardSummaryView_get(cred)
  \/ Idle /\ \E cred \in TokenKeys : AnalyticsOverviewView_get(cred, 738905)

SpecWrite == Init /\ [][NextWrite]_vars

\* C1: every stored expense has amount <= 0 and every stored income has
\* amount >= 0, whatever sequence of POST, PUT and PATCH wrote the rows.
C1_SignMatchesType ==
  \A t \in DOMAIN transactions :
     /\ transactions[t].type = "expense" => transactions[t].amount <= 0
     /\ transactions[t].type = "income" => transactions[t].amount >= 0

----------------------------------------------------------------------------
(* The aggregates: the first user has categories, incomes of 0.10 and      *)
(* expenses of 0.00 and 0.30 with and without a (stored) category; the     *)
(* second has an income of 0.10 and expenses of 0.30 without category.     *)
(* Both read the dashboard and the analytics overview, on 2024-01-20.      *)

TextC == <<"c">>

NextAgg ==
  \/ Respond
  \/ Idle /\ \E data \in SignupData({EmailA, EmailB}) : signup_view(data)
  \/ Idle /\ \E data \in CategoryData({TextA, TextB, TextC}) :
        CategoryListCreateView_post(TokenKey(1), data)
  \/ Idle /\ \E data \in TransactionData({TextA}, {10}, {"income"}, {})
                         \cup TransactionData({TextA}, {0, 30}, {"expense"},
                                              DOMAIN categories) :
        TransactionListCreateView_post(TokenKey(1), data)
  \/ Idle /\ \E data \in TransactionData({TextA}, {10}, {"income"}, {})
                         \cup TransactionData({TextA}, {30}, {"expense"}, {}) :
        TransactionListCreateView_post(TokenKey(2), data)
  \/ Idle /\ \E cred \in TokenKeys : DashboardSummaryView_get(cred)
  \/ Idle /\ \E cred \in TokenKeys : AnalyticsOverviewView_get(cred, 738905)

SpecAgg == Init /\ [][NextAgg]_vars

\* The rows of the principal of the recorded request.
PrincipalRows == {t \in DOMAIN transactions :
                    transactions[t].user = Val(Principal)}

\* The principal's income total and absolute expense total, in cents.
PrincipalIncome ==
  LET S == {t \in PrincipalRows : transactions[t].type = "income"}
  IN SumOver(S, [t \in S |-> transactions[t].amount])

PrincipalExpense ==
  LET S == {t \in PrincipalRows : transactions[t].type = "expense"}
  IN Abs(SumOver(S, [t \in S |-> transactions[t].amount]))

DashboardAnswered ==
  request.op = "dashboard_summary" /\ response.status = HTTP_200_OK

\* C6 as stated: in every dashboard response, balance equals total_income
\* minus total_expenses exactly, for the values returned (which are binary
\* floating-point numbers).
C6_ReturnedBalanceIsDifference ==
  DashboardAnswered =>
     response.body.summary.balance =
        FloatSub(response.body.summary.total_income,
                 response.body.summary.total_expenses)

\* C6 amended: in every dashboard response, total_income, total_expenses and
\* balance are the doubles nearest to the decimal totals I, E and I - E of
\* the principal's rows: the identity balance = total_income -
\* total_expenses is exact for the decimal totals, and each returned value
\* is its total rounded once.
C6_BalanceIsDifferenceOfTotals ==
  DashboardAnswered =>
     /\ response.body.summary.total_income = ToFloat(PrincipalIncome)
     /\ response.body.summary.total_expenses = ToFloat(PrincipalExpense)
     /\ response.body.summary.balance
           = ToFloat(PrincipalIncome - PrincipalExpense)

\* C6 witness: a dashboard response over income and expense rows whose
\* returned balance is not the floating-point difference of the returned
\* totals.
C6_Witness ==
  /\ DashboardAnswered
  /\ PrincipalIncome > 0
  /\ PrincipalExpense > 0
  /\ response.body.summary.balance #
        FloatSub(response.body.summary.total_income,
                 response.body.summary.total_expenses)

AnalyticsAnswered ==
  request.op = "analytics_overview" /\ response.status = HTTP_200_OK

\* The principal's expense rows that have a category.
PrincipalCategorised ==
  {t \in PrincipalRows : /\ transactions[t].type = "expense"
                         /\ transactions[t].category # None}

\* C9: in every analytics response, the category breakdown is empty exactly
\* when the principal has no categorised expense; top_category is null
\* exactly when the breakdown is empty; top_category_percent is null exactly
\* when the breakdown is empty or its values sum to 0, and otherwise its
\* quotient lies in [0, 1], so that the percentage lies in [0, 100].
C9_TopCategoryPercent ==
  AnalyticsAnswered =>
     LET data == response.body.category_data
         total == FloatSum([i \in 1..Len(data) |-> data[i].value])
         pct == response.body.top_category_percent
     IN /\ (data = <<>>) <=> (PrincipalCategorised = {})
        /\ (response.body.top_category = None) <=> (data = <<>>)
        /\ (pct = None) <=> (data = <<>> \/ total = FloatZero)
        /\ pct # None =>
              /\ ~FloatLess(Val(pct).num, FloatZero)
              /\ ~FloatLess(Val(pct).den, Val(pct).num)
              /\ Val(pct).den = total
              /\ Val(pct).num = data[1].value

\* C9 witness: an analytics response with two categories in the breakdown,
\* the top one holding less than the whole.
C9_Witness ==
  /\ AnalyticsAnswered
  /\ Len(response.body.category_data) = 2
  /\ response.body.top_category_percent # None
  /\ FloatLess(Val(response.body.top_category_percent).num,
               Val(response.body.top_category_percent).den)

----------------------------------------------------------------------------
(* Accounts: signup with present, empty and missing fields and with emails *)
(* that differ only in the case of the domain, login, forgot-password.     *)

NextAuth ==
  \/ Respond
  \/ Idle /\ \E data \in [name : {None, Some(<<>>), Some(TextA)},
                            email : {None, Some(EmailA), Some(EmailAUpper),
                                     Some(EmailB)},
                            password : {None, Some(Password1)}] :
        signup_view(data)
  \/ Idle /\ \E data \in [email : {None, Some(EmailA), Some(EmailAUpper)},
                            password : {None, Some(Password1),
                                        Some(Password2)}] :
        login_view(data)
  \/ Idle /\ \E data \in [email : {None, Some(EmailA)}] :
        forgot_password_view(data)

SpecAuth == Init /\ [][NextAuth]_vars

\* A user signed up with exactly this email.
Registered(email) == \E u \in DOMAIN users : users[u].username = email

\* C8: a signup whose email is already registered, or whose name, email or
\* password is missing, returns 400 with an error payload and creates no
\* user, profile or token; a successful signup creates exactly one user and
\* exactly one profile, with the default values.
C8_SignupRejectsOrCreatesOne ==
  [][request'.op = "signup" =>
       LET data == request'.data
       IN IF \/ Falsy(data.name) \/ Falsy(data.email) \/ Falsy(data.password)
             \/ Registered(Val(data.email))
          THEN /\ response'.status = HTTP_400_BAD_REQUEST
               /\ "error" \in DOMAIN response'.body
               /\ UNCHANGED <<users, profiles, tokens>>
          ELSE response'.status = HTTP_201_CREATED =>
                  \E id \in DOMAIN users' \ DOMAIN users :
                     /\ DOMAIN users' = DOMAIN users \cup {id}
                     /\ DOMAIN profiles' = DOMAIN profiles \cup {id}
                     /\ profiles'[id] = DefaultProfile
                     /\ \A u \in DOMAIN users :
                           /\ users'[u] = users[u]
                           /\ profiles'[u] = profiles[u]]_vars

\* C11: at every reachable state the login identifier (username) of each
\* user created through signup equals the user's email, and no two users
\* share an email.
C11_LoginIdentifierIsEmail ==
  /\ \A u \in DOMAIN users : users[u].username = users[u].email
  /\ \A u, v \in DOMAIN users :
        users[u].email = users[v].email => u = v

----------------------------------------------------------------------------
(* Requests without a valid credential: one user, every operation of every *)
(* view that requires authentication, with no credential, the user's token *)
(* and a key that is no token.                                             *)

Credentials == {None} \cup TokenKeys

NextUnauth ==
  \/ Respond
  \/ Idle /\ \E data \in SignupData({EmailA}) : signup_view(data)
  \/ Idle /\ \E cred \in Credentials : MeView_get(cred)
  \/ Idle /\ \E cred \in Credentials : ProfileView_get(cred)
  \/ Idle /\ \E cred \in Credentials, name \in {TextA, TextB},
                format \in DATE_FORMAT_CHOICES :
        ProfileView_put(cred, [name |-> Some(name), email |-> None,
                               currency |-> None,
                               date_format |-> Some(format)])
  \/ Idle /\ \E cred \in Credentials, new \in {Password1, Password2} :
        ChangePasswordView_post(cred,
           [current_password |-> Some(Password1),
            new_password |-> Some(new)])
  \/ Idle /\ \E cred \in Credentials : CategoryListCreateView_get(cred)
  \/ Idle /\ \E cred \in Credentials, data \in CategoryData({TextA, TextB}) :
        CategoryListCreateView_post(cred, data)
  \/ Idle /\ \E cred \in Credentials, pk \in CategoryIds :
        CategoryDetailView_get(cred, pk)
  \/ Idle /\ \E cred \in Credentials, pk \in CategoryIds,
                data \in CategoryData({TextA, TextB}) :
        CategoryDetailView_put(cred, pk, data)
  \/ Idle /\ \E cred \in Credentials, pk \in CategoryIds,
                data \in CategoryData({TextA, TextB}) :
        CategoryDetailView_patch(cred, pk, data)
  \/ Idle /\ \E cred \in Credentials, pk \in CategoryIds :
        CategoryDetailView_delete(cred, pk)
  \/ Idle /\ \E cred \in Credentials, params \in ListParams :
        TransactionListCreateView_get(cred, params)
  \/ Idle /\ \E cred \in Credentials,
                data \in TransactionData({TextA}, {10}, TYPE_CHOICES, {}) :
        TransactionListCreateView_post(cred, data)
  \/ Idle /\ \E cred \in Credentials, pk \in TransactionIds :
        TransactionDetailView_get(cred, pk)
  \/ Idle /\ \E cred \in Credentials, pk \in TransactionIds,
                data \in TransactionData({TextA}, {10}, TYPE_CHOICES, {}) :
        TransactionDetailView_put(cred, pk, data)
  \/ Idle /\ \E cred \in Credentials, pk \in TransactionIds,
                data \in TransactionData({TextA}, {10}, TYPE_CHOICES, {}) :
        TransactionDetailView_patch(cred, pk, data)
  \/ Idle /\ \E cred \in Credentials, pk \in TransactionIds :
        TransactionDetailView_delete(cred, pk)
  \/ Idle /\ \E cred \in Credentials : DashboardSummaryView_get(cred)
  \/ Idle /\ \E cred \in Credentials :
        AnalyticsOverviewView_get(cred, 738905)

SpecUnauth == Init /\ [][NextUnauth]_vars

\* The operations of the views that require authentication.
AuthenticatedOps ==
  {"me_get", "profile_get", "profile_put", "change_password",
   "category_list", "category_create", "category_retrieve", "category_put",
   "category_patch", "category_delete", "transaction_list",
   "transaction_create", "transaction_retrieve", "transaction_put",
   "transaction_patch", "transaction_delete", "dashboard_summary",
   "analytics_overview"}

\* C10: every operation of every authenticated endpoint, requested with no
\* credential or with a key that is no token, is answered 401 and changes no
\* stored row.
C10_Unauthenticated401 ==
  [][(/\ request'.op \in AuthenticatedOps
      /\ (request'.cred = None \/ Val(request'.cred) \notin tokens))
       => response'.status = HTTP_401_UNAUTHORIZED /\ UNCHANGED db]_vars

\* C10 witness: a delete of a stored transaction, requested with a key that
\* is no token while categories and a user exist, was answered 401 and the
\* transaction is still stored.
C10_Witness ==
  /\ request.op = "transaction_delete"
  /\ request.cred # None
  /\ Val(request.cred) \notin tokens
  /\ response.status = HTTP_401_UNAUTHORIZED
  /\ Val(request.pk) \in DOMAIN transactions
  /\ DOMAIN categories # {}

\* The serialized categories of the recorded response.
ResponseCategories ==
  IF response.status \notin {HTTP_200_OK, HTTP_201_CREATED} THEN {}
  ELSE IF request.op \in {"category_create", "category_retrieve"}
  THEN {response.body}
  ELSE IF request.op = "category_list" THEN BodyRows
  ELSE {}

\* The principal's transactions that reference category c.
PrincipalIn(c) ==
  {t \in PrincipalRows : transactions[t].category = Some(c)}

\* C17: every category serialized for principal P shows as count the number
\* of transactions that reference it and are owned by P, and as spent the
\* sum of abs(amount) over those of them of type 'expense' (0 when there are
\* none), leaving out other users' transactions and incomes; serialized
\* without an authenticated principal, every category shows count 0 and
\* spent 0.
C17_CountAndSpent ==
  /\ \A row \in ResponseCategories :
        LET E == {t \in PrincipalIn(row.id) :
                    transactions[t].type = "expense"}
        IN /\ row.count = Cardinality(PrincipalIn(row.id))
           /\ row.spent =
                 ToFloat(SumOver(E, [t \in E |-> Abs(transactions[t].amount)]))
           /\ E = {} => row.spent = FloatZero
  /\ \A c \in DOMAIN categories :
        LET row == CategorySerializer(categories, transactions, c, None)
        IN row.count = 0 /\ row.spent = FloatZero

\* C17 witness: a category serialized for its owner with count 1 and a
\* non-zero spent, while a transaction of another user references it too.
C17_Witness ==
  \E row \in ResponseCategories :
     /\ row.count = 1
     /\ row.spent # FloatZero
     /\ \E t \in DOMAIN transactions :
           /\ transactions[t].category = Some(row.id)
           /\ transactions[t].user # Val(Principal)
----------------------------------------------------------------------------
(* Profiles: two users, GET /me, GET and PUT /settings/profile with valid  *)
(* and invalid values, and an administrator who deletes profile rows.      *)

NextLazy ==
  \/ Respond
  \/ Idle /\ \E data \in SignupData({EmailA, EmailB}) : signup_view(data)
  \/ Idle /\ \E cred \in TokenKeys : MeView_get(cred)
  \/ Idle /\ \E cred \in TokenKeys : ProfileView_get(cred)
  \/ Idle /\ \E cred \in TokenKeys,
                currency \in {None, Some("EUR"), Some("XXX")},
                format \in {None, Some("DD/MM/YYYY")} :
        ProfileView_put(cred, [name |-> None, email |-> None,
                               currency |-> currency,
                               date_format |-> format])
  \/ Idle /\ \E user \in DOMAIN users : UserProfileAdmin_delete(user)

SpecLazy == Init /\ [][NextLazy]_vars

ProfileOps == {"me_get", "profile_get", "profile_put"}

\* C12: profile access is an idempotent get-or-create.  Every answered
\* GET /me, GET /settings/profile or PUT /settings/profile leaves the
\* principal with a profile and touches no other user's; an access by a
\* user who has a profile creates none and keeps its currency and
\* date_format, except for the values a valid PUT sets; an access by a user
\* without one creates it with the defaults.
C12_ProfileGetOrCreate ==
  [][(request'.op \in ProfileOps /\ Authenticate(request'.cred) # None)
       => LET user == Val(Authenticate(request'.cred))
              old == IF user \in DOMAIN profiles THEN profiles[user]
                     ELSE DefaultProfile
              data == request'.data
              set == request'.op = "profile_put"
                     /\ response'.status = HTTP_200_OK
          IN /\ DOMAIN profiles' = DOMAIN profiles \cup {user}
             /\ \A o \in DOMAIN profiles \ {user} :
                   profiles'[o] = profiles[o]
             /\ profiles'[user].currency =
                   IF set /\ data.currency # None THEN Val(data.currency)
                   ELSE old.currency
             /\ profiles'[user].date_format =
                   IF set /\ data.date_format # None
                   THEN Val(data.date_format)
                   ELSE old.date_format]_vars

\* C12 witness: a GET /me answered with the currency an earlier PUT set and
\* the default date_format, which is the principal's stored profile.
C12_Witness ==
  /\ request.op = "me_get"
  /\ response.status = HTTP_200_OK
  /\ response.body.profile.currency = "EUR"
  /\ response.body.profile.date_format = "YYYY-MM-DD"
  /\ profiles[Val(Principal)] = response.body.profile

----------------------------------------------------------------------------
(* Dates: the first user has incomes and expenses of 0.10 and 0.30 dated   *)
(* 2023-12-20, 2023-12-21, 2024-01-20, 2024-01-21 and 2025-01-10, the      *)
(* second of 0.30 dated 2024-01-20; both read the dashboard and the        *)
(* analytics overview on 2024-01-20.                                        *)

NextDates ==
  \/ Respond
  \/ Idle /\ \E data \in SignupData({EmailA, EmailB}) : signup_view(data)
  \/ Idle /\ \E data \in TransactionData({TextA}, {10, 30}, TYPE_CHOICES, {}),
                day \in {738874, 738875, 738905, 738906, 739261} :
        TransactionListCreateView_post(TokenKey(1),
                                       [data EXCEPT !.date = Some(day)])
  \/ Idle /\ \E data \in TransactionData({TextA}, {30}, TYPE_CHOICES, {}) :
        TransactionListCreateView_post(TokenKey(2),
                                       [data EXCEPT !.date = Some(738905)])
  \/ Idle /\ \E cred \in TokenKeys : DashboardSummaryView_get(cred)
  \/ Idle /\ \E cred \in TokenKeys : AnalyticsOverviewView_get(cred, 738905)

SpecDates == Init /\ [][NextDates]_vars

\* The principal's expense rows dated from d1 to d2, both included.
PrincipalExpensesDated(d1, d2) ==
  {t \in PrincipalRows : /\ transactions[t].type = "expense"
                         /\ d1 <= transactions[t].date
                         /\ transactions[t].date <= d2}

\* C13: in every analytics response, average_daily_spending is the sum of
\* abs(amount) over the principal's expenses dated in [today - 30, today],
\* both days included, divided by 30; incomes, other users' rows, and
\* expenses dated before the window or after today add nothing, and
\* without such expenses it is 0.
C13_AverageDailySpending ==
  AnalyticsAnswered =>
     LET today == request.data.today
         S == PrincipalExpensesDated(today - 30, today)
     IN /\ response.body.average_daily_spending =
              [num |-> SumOver(S, [t \in S |-> Abs(transactions[t].amount)]),
               den |-> 30]
        /\ S = {} => response.body.average_daily_spending.num = 0

\* C13 witness: an analytics response for a principal with an expense dated
\* today - 30 and an expense dated today - 31, counting only the first.
C13_Witness ==
  /\ AnalyticsAnswered
  /\ \E t, o \in PrincipalRows :
        /\ transactions[t].type = "expense"
        /\ transactions[o].type = "expense"
        /\ transactions[t].date = request.data.today - 30
        /\ transactions[o].date = request.data.today - 31
        /\ response.body.average_daily_spending.num =
              Abs(transactions[t].amount)
        /\ transactions[t].amount # 0


\* The month labels among the principal's rows.
PrincipalMonths == {MonthLabel(transactions[t].date) : t \in PrincipalRows}

\* The principal's rows of a type whose date has the month label.
PrincipalInMonth(label, type) ==
  {t \in PrincipalRows : /\ transactions[t].type = type
                         /\ MonthLabel(transactions[t].date) = label}

PrincipalExpenseAbs ==
  LET S == {t \in PrincipalRows : transactions[t].type = "expense"}
  IN SumOver(S, [t \in S |-> Abs(transactions[t].amount)])

\* C14: in every dashboard response, total_expenses (the absolute value of
\* the signed sum of the principal's expense amounts) is the sum of the
\* absolute values of those amounts, the expense total the analytics
\* overview uses for the savings rate.
C14_DashboardExpensesAreSumOfAbs ==
  DashboardAnswered =>
     response.body.summary.total_expenses = ToFloat(PrincipalExpenseAbs)


\* C15: in every analytics response, savings_rate is null exactly when the
\* sum of the principal's income amounts is 0 or negative; otherwise it is
\* the quotient (total_income - total_expenses) / total_income, times 100,
\* with total_expenses the sum of abs(amount) over the principal's
\* expenses, and its divisor is positive.
C15_SavingsRate ==
  AnalyticsAnswered =>
     /\ response.body.savings_rate = None <=> PrincipalIncome <= 0
     /\ PrincipalIncome > 0 =>
           /\ response.body.savings_rate =
                 Some([num |-> PrincipalIncome - PrincipalExpenseAbs,
                       den |-> PrincipalIncome])
           /\ Val(response.body.savings_rate).den > 0

\* C15 witness: an analytics response with a null savings_rate for a
\* principal whose income amounts sum to a negative total.
C15_Witness ==
  /\ AnalyticsAnswered
  /\ PrincipalIncome < 0
  /\ response.body.savings_rate = None


\* C19: every PUT or PATCH on /transactions/{id} by the row's owner, with
\* field values that are each valid, is answered 200 with the update or 400
\* with the row unchanged; it is never answered with a server error.
C19_OwnerUpdateNeverCrashes ==
  [][(/\ request'.op \in {"transaction_put", "transaction_patch"}
      /\ Authenticate(request'.cred) # None
      /\ TransactionObject(Val(Authenticate(request'.cred)),
                           Val(request'.pk)) # None
      /\ TransactionFieldsValid(request'.data,
                                request'.op = "transaction_patch"))
       => \/ response'.status = HTTP_200_OK
          \/ /\ response'.status = HTTP_400_BAD_REQUEST
             /\ transactions' = transactions]_vars

----------------------------------------------------------------------------
(* Recent transactions: two signed-up users and a table of up to           *)
(* RecentRows expenses of 0.10, each created by either user and dated      *)
(* 2024-01-15 or 2024-01-20; both read the dashboard.                      *)

RecentRows == 6

InitRecent ==
  /\ users = <<create_user(EmailA, EmailA, Password1, TextA),
               create_user(EmailB, EmailB, Password1, TextA)>>
  /\ profiles = <<DefaultProfile, DefaultProfile>>
  /\ tokens = {1, 2}
  /\ categories = <<>>
  /\ \E n \in 0..RecentRows :
        /\ transactions \in
              [1..n -> {TransactionCreate(user, validate(data)) :
                          user \in {1, 2},
                          data \in {[d EXCEPT !.date = Some(day)] :
                                      d \in TransactionData({TextA}, {10},
                                                            {"expense"}, {}),
                                      day \in {738900, 738905}}}]
        /\ nextTransactionId = n + 1
  /\ nextUserId = 3
  /\ nextCategoryId = 1
  /\ request = IdleRequest
  /\ response = Resp(0, None)

NextRecent ==
  \/ Respond
  \/ Idle /\ \E cred \in TokenKeys : DashboardSummaryView_get(cred)

SpecRecent == InitRecent /\ [][NextRecent]_vars

\* Row a comes before row b in the order date descending, id descending.
Newer(a, b) ==
  \/ transactions[a].date > transactions[b].date
  \/ /\ transactions[a].date = transactions[b].date
     /\ a > b

\* C16: in every dashboard response, recent_transactions lists min(5, n) of
\* the principal's n transactions and none of another user's, each once, in
\* the order date descending then id descending, and every row of the
\* principal that is not listed comes after all listed ones in that order.
C16_RecentTransactions ==
  DashboardAnswered =>
     LET recent == response.body.recent_transactions
         n == Cardinality(PrincipalRows)
         listed == {recent[i].id : i \in 1..Len(recent)}
     IN /\ Len(recent) = IF n < 5 THEN n ELSE 5
        /\ listed \subseteq PrincipalRows
        /\ \A i \in 1..Len(recent) :
              recent[i] = TransactionSerializer(transactions, categories,
                                                recent[i].id)
        /\ \A i, j \in 1..Len(recent) :
              i < j => Newer(recent[i].id, recent[j].id)
        /\ \A t \in PrincipalRows \ listed :
              \A i \in 1..Len(recent) : Newer(recent[i].id, t)

\* C16 witness: a dashboard response for a principal with six transactions
\* that lists five and leaves out a row with a higher id than a listed one
\* (its date is older).
C16_Witness ==
  /\ DashboardAnswered
  /\ Cardinality(PrincipalRows) = 6
  /\ Len(response.body.recent_transactions) = 5
  /\ \E t \in PrincipalRows :
        /\ \A i \in 1..5 : response.body.recent_transactions[i].id # t
        /\ \E i \in 1..5 : response.body.recent_transactions[i].id < t

----------------------------------------------------------------------------
(* Ownership: two users create and update categories and transactions      *)
(* with payloads that carry, besides the serializer's fields, a 'user'     *)
(* key that is absent or names either user.                                *)

NextOwner ==
  \/ Respond
  \/ Idle /\ \E data \in SignupData({EmailA, EmailB}) : signup_view(data)
  \/ Idle /\ \E cred \in TokenKeys, data \in CategoryData({TextA, TextB}),
                owner \in {None, Some(1), Some(2)} :
        CategoryListCreateView_post(cred, data @@ [user |-> owner])
  \/ Idle /\ \E cred \in TokenKeys, pk \in CategoryIds,
                data \in CategoryData({TextA, TextB}),
                owner \in {None, Some(1), Some(2)} :
        \/ CategoryDetailView_put(cred, pk, data @@ [user |-> owner])
        \/ CategoryDetailView_patch(cred, pk, data @@ [user |-> owner])
  \/ Idle /\ \E cred \in TokenKeys,
                data \in TransactionData({TextA}, {10}, {"expense"}, {}),
                owner \in {None, Some(1), Some(2)} :
        TransactionListCreateView_post(cred, data @@ [user |-> owner])
  \/ Idle /\ \E cred \in TokenKeys, pk \in TransactionIds,
                data \in TransactionData({TextB}, {30}, {"expense"}, {}),
                owner \in {None, Some(1), Some(2)} :
        \/ TransactionDetailView_put(cred, pk, data @@ [user |-> owner])
        \/ TransactionDetailView_patch(cred, pk, data @@ [user |-> owner])

SpecOwner == Init /\ [][NextOwner]_vars

\* In the step, every row of the table keeps its owner and every new row is
\* owned by the principal of the request.
OwnerKept(old, new, principal) ==
  \A k \in DOMAIN new :
     new[k].user = IF k \in DOMAIN old THEN old[k].user ELSE Val(principal)

\* C20: the owner of a category or transaction is the principal that
\* created it: a create stores the requesting principal as owner whatever
\* the payload says, and no update by any principal changes the owner of an
\* existing row.
C20_OwnerIsCreator ==
  [][/\ OwnerKept(categories, categories', Authenticate(request'.cred))
     /\ OwnerKept(transactions, transactions', Authenticate(request'.cred))
     /\ DOMAIN categories \subseteq DOMAIN categories'
     /\ DOMAIN transactions \subseteq DOMAIN transactions']_vars

\* C20 witness: a transaction updated through PUT or PATCH by its owner with
\* a payload that names the other user as owner, rewritten by the update
\* and still owned by the principal.
C20_Witness ==
  /\ request.op \in {"transaction_put", "transaction_patch"}
  /\ response.status = HTTP_200_OK
  /\ IsSome(request.data.user)
  /\ Val(request.data.user) \in DOMAIN users \ {Val(Principal)}
  /\ transactions[Val(request.pk)].user = Val(Principal)
  /\ transactions[Val(request.pk)].description = TextB

----------------------------------------------------------------------------
(* The chart against the summary of the same dashboard response, under     *)
(* SpecWrite, where every row has the same date: the chart has at most one *)
(* entry, so that its sums involve no rounding.                            *)

\* C21: in every dashboard response, in whatever order the chart lists its
\* entries, the sum of their 'income' equals the summary's total_income and
\* the sum of their 'expenses' equals the summary's total_expenses.
C21_ChartSumsMatchSummary ==
  DashboardAnswered =>
     \A chart \in Orderings(response.body.chart) :
        /\ FloatSum([i \in 1..Len(chart) |-> chart[i].income])
              = response.body.summary.total_income
        /\ FloatSum([i \in 1..Len(chart) |-> chart[i].expenses])
              = response.body.summary.total_expenses

====
